---- MODULE Spec2Model ----
(***************************************************************************)
(* A model of libhentai's e-hentai client:                                 *)
(*   - Page      (src/src/backend/ehentai/explorer.rs): the lazy stream of *)
(*                search-result pages, one fetch per poll cycle;           *)
(*   - Article   (src/src/ehentai/article.rs): the lazily completed        *)
(*                article with its image-link list and comments.           *)
(* The transport (hyper) and the parser module are outside the sources     *)
(* modelled here; what they hand back is an input of the step that         *)
(* consumes it, drawn from every value the call site's type admits.        *)
(*                                                                         *)
(* Two specifications share the variables: SpecPage runs one Page,         *)
(* SpecArticle runs one Article.  The component a specification does not   *)
(* run stays at its "not constructed" value.                               *)
(***************************************************************************)
EXTENDS Integers, Sequences, FiniteSets, TLC

----------------------------------------------------------------------------
(* Bounds of the model (not program constants).                            *)

\* usize is modelled UsizeBits wide; wrapping arithmetic is taken mod 2^UsizeBits
UsizeBits == 12
\* poll_next does not complete a page once the page counter reached MaxPage
MaxPage == 3
\* largest argument of skip
MaxSkip == 2
\* largest number of fetches one Page issues
MaxFetches == 4
\* largest result count a search page reports
MaxResults == 30
\* largest number of entries in one batch of search results
MaxBatch == 1
\* largest meta.length (page count) of an article
MaxLength == 81
\* largest number of load_image_list calls on one article
MaxCalls == 2
\* largest number of comments a comment page holds
MaxComments == 1
\* longest keyword percent_encode is applied to
MaxKeywordLen == 2

(* Program constants.                                                      *)
ARTICLES_PER_PAGE == 25
IMAGES_PER_PAGE == 40

----------------------------------------------------------------------------
(* Option, Result and Poll values.                                         *)

None == [tag |-> "None"]
Some(v) == [tag |-> "Some", val |-> v]
Ok(v) == [tag |-> "Ok", val |-> v]
Err(e) == [tag |-> "Err", err |-> e]
Pending == [tag |-> "Pending"]
Ready(v) == [tag |-> "Ready", val |-> v]
Unit == "()"

is_none(o) == o.tag = "None"
is_some(o) == o.tag = "Some"
is_ok(r) == r.tag = "Ok"
is_err(r) == r.tag = "Err"

(* usize arithmetic.  A subtraction that goes below zero panics in a build *)
(* with overflow checks (debug) and wraps in one without (release).        *)
USIZE_MODULUS == 2 ^ UsizeBits

sub_overflows(a, b) == a < b
wrapping_sub(a, b) == (a - b + USIZE_MODULUS) % USIZE_MODULUS

VARIABLES
    \* the build: TRUE when arithmetic overflow checks are compiled in
    overflow_checks,
    \* TRUE once a panic has unwound the task
    panicked,
    \* Page fields
    page, results, query, task,
    \* number of fetches the Page has issued (get_html calls)
    page_fetches,
    \* the last operation on the Page and what it returned
    page_ev,
    \* Article fields
    meta, links, comments,
    \* the Article's suspended async call, if any
    call,
    \* number of load_image_list calls started
    calls,
    \* number of fetches issued by the current (or last) Article call
    fetches,
    \* the last completed Article call and what it returned
    ret

pageVars == <<page, results, query, task, page_fetches, page_ev>>
articleVars == <<meta, links, comments, call, calls, fetches, ret>>
vars == <<overflow_checks, panicked, pageVars, articleVars>>

----------------------------------------------------------------------------
(* Page: explorer.rs                                                       *)

\* the queries Explorer::search builds: "f_search=" followed by the
\* percent-encoded keyword
Queries == {"f_search=language%3Akorean", "f_search=a"}

\* the bytes of a keyword percent_encode is applied to: every byte as a
\* keyword of its own, and the bytes next to the borders of the match arms
\* (and space, '/', 0xC3 0xA9, 0x00, 0xFF) in longer keywords
Bytes == 0..255
BorderBytes ==
    {0, 32, 37, 44, 45, 46, 47, 48, 57, 58, 64, 65, 90, 91, 94, 95, 96, 97, 122,
     123, 125, 126, 127, 169, 195, 255}
RECURSIVE SeqsUpTo(_, _)
SeqsUpTo(S, n) ==
    IF n = 0 THEN {<<>>}
    ELSE LET shorter == SeqsUpTo(S, n - 1)
         IN  shorter \cup {Append(w, b) : w \in shorter, b \in S}
Keywords == {<<b>> : b \in Bytes} \cup SeqsUpTo(BorderBytes, MaxKeywordLen)

\* format!("{:02x}"): lower-case hexadecimal digits
hex_digit_lower(d) == IF d < 10 THEN 48 + d ELSE 87 + d

\* one digit of format!("{:02X}", byte), as an ASCII code
hex_digit(d) == IF d < 10 THEN 48 + d ELSE 55 + d

\* the match of percent_encode, lines 27-36: what one byte adds to res
encode_byte(byte) ==
    IF \/ (65 <= byte /\ byte <= 90)        \* b'A'..=b'Z'
       \/ (97 <= byte /\ byte <= 122)       \* b'a'..=b'z'
       \/ (48 <= byte /\ byte <= 57)        \* b'0'..=b'9'
       \/ byte = 45 \/ byte = 95            \* b'-' | b'_'
       \/ byte = 46 \/ byte = 126           \* b'.' | b'~'
    THEN <<byte>>
    ELSE <<37, hex_digit(byte \div 16), hex_digit(byte % 16)>>

\* percent_encode, lines 23-40: the loop over from.as_bytes()
RECURSIVE percent_encode_loop(_, _)
percent_encode_loop(res, rest) ==
    IF rest = <<>> THEN res
    ELSE percent_encode_loop(res \o encode_byte(Head(rest)), Tail(rest))

percent_encode(from) == percent_encode_loop(<<>>, from)

\* the keywords Explorer::search is called with: "language:korean" and "a"
SearchKeywords ==
    {<<108, 97, 110, 103, 117, 97, 103, 101, 58, 107, 111, 114, 101, 97, 110>>,
     <<97>>}

\* the bytes of "f_search="
F_SEARCH == <<102, 95, 115, 101, 97, 114, 99, 104, 61>>

\* Page::uri: the request target of the current page
uri(pg, q) == [page |-> pg, query |-> q]

\* get_html: the future of one fetch; it resolves to Err(transport error)
\* or to Ok(document)
get_html(dest) == [dest |-> dest]

\* one batch of k search results of page pg
batch(pg, k) == [j \in 1..k |-> <<pg, j>>]

\* what parser::search_results can return on a document
SearchResultsOutcomes == {Ok(n) : n \in 0..MaxResults} \cup {Err("parse_count")}

\* what parser::article_list can return on the document of page pg; its
\* result is transposed by the caller, so it is a Result of an Option
ArticleListOutcomes(pg) ==
    {Ok(Some(batch(pg, k))) : k \in 0..MaxBatch} \cup {Ok(None), Err("parse_list")}

\* the documents a fetch of `dest` can resolve to, as the parser sees them
Documents(dest) ==
    {[dest |-> dest, search_results |-> c, article_list |-> l] :
        c \in SearchResultsOutcomes, l \in ArticleListOutcomes(dest.page)}

\* what polling the future of `dest` can give
PollOutcomes(dest) ==
    {Pending, Ready(Err("transport"))} \cup {Ready(Ok(d)) : d \in Documents(dest)}

\* Page::results
Page_results(rs) == rs

\* Page::len: results.map(|n| (n - 1) / ARTICLES_PER_PAGE + 1)
\* gives [panic |-> TRUE] or [panic |-> FALSE, val |-> Option<usize>]
Page_len(rs, checks) ==
    IF is_none(rs) THEN [panic |-> FALSE, val |-> None]
    ELSE IF sub_overflows(rs.val, 1) /\ checks THEN [panic |-> TRUE]
    ELSE [panic |-> FALSE,
          val |-> Some((wrapping_sub(rs.val, 1) \div ARTICLES_PER_PAGE + 1)
                        % USIZE_MODULUS)]

\* a transposition that ends the stream on an empty list as well
transpose_empty_is_none(r) ==
    IF is_err(r) THEN Some(Err(r.err))
    ELSE IF is_none(r.val) \/ r.val.val = <<>> THEN None
    ELSE Some(Ok(r.val.val))

\* Result<Option<T>, E>::transpose
transpose(r) ==
    IF is_err(r) THEN Some(Err(r.err))
    ELSE IF is_none(r.val) THEN None
    ELSE Some(Ok(r.val.val))

\* a poll_next that leaves the page counter alone
page_not_advanced(pg) == pg

\* poll_next, line 140: the page counter after a document arrived
page_after_document(pg) == pg + 1

\* a poll_next that keeps the first result count it saw
results_first_wins(rs, n) == IF is_some(rs) THEN rs ELSE Some(n)

\* poll_next, line 142: the result count after search_results gave Ok(n)
results_after_count(rs, n) == Some(n)

\* a poll_next that keeps the finished task in the slot
task_kept_when_ready(t) == t

\* poll_next, line 137: the pending-fetch slot once the task is ready
task_after_ready(t) == None

\* the closure poll_next maps over a ready fetch: the new page counter, the
\* new result count and the item handed to the caller
on_ready(pg, rs, res) ==
    IF is_err(res)
    THEN [page |-> pg, results |-> rs, item |-> Some(Err(res.err))]
    ELSE LET doc == res.val
             pg1 == page_after_document(pg)
         IN  IF is_err(doc.search_results)
             THEN [page |-> pg1, results |-> rs,
                   item |-> Some(Err(doc.search_results.err))]
             ELSE [page |-> pg1,
                   results |-> results_after_count(rs, doc.search_results.val),
                   item |-> transpose(doc.article_list)]

\* a skip that forgets the result count
results_lost_by_skip(rs) == None

\* skip, lines 113-117: results is not assigned
results_after_skip(rs) == rs

\* a skip that keeps the pending fetch
task_kept_by_skip(t) == t

\* Page::skip, line 115: the pending-fetch slot after skip
task_after_skip(t) == None

\* a Page::new that starts the first fetch itself
Page_new_eager(pg, q) ==
    [page |-> pg, results |-> None, query |-> q, task |-> Some(get_html(uri(pg, q)))]

\* Page::new
Page_new(pg, q) ==
    [page |-> pg, results |-> None, query |-> q, task |-> None]

\* Explorer::search(keyword): a Page at page 0 for "f_search=" followed by
\* the percent-encoded keyword
Explorer_search ==
    /\ ~panicked
    /\ page_ev.op = "none"
    /\ \E keyword \in SearchKeywords :
          LET new == Page_new(0, F_SEARCH \o percent_encode(keyword))
          IN  /\ page' = new.page
              /\ results' = new.results
              /\ query' = new.query
              /\ task' = new.task
              /\ page_fetches' = IF is_some(new.task) THEN 1 ELSE 0
              /\ page_ev' = [op |-> "search", keyword |-> keyword]
    /\ UNCHANGED <<overflow_checks, panicked, articleVars>>

\* percent_encode applied to the keyword handed in
Call_percent_encode ==
    /\ page_ev.op = "keyword"
    /\ page_ev' = [op |-> "percent_encode", from |-> page_ev.from,
                   ret |-> percent_encode(page_ev.from)]
    /\ UNCHANGED <<page, results, query, task, page_fetches>>
    /\ UNCHANGED <<overflow_checks, panicked, articleVars>>

InitPageFields ==
    /\ page = 0
    /\ results = None
    /\ query \in Queries
    /\ task = None
    /\ page_fetches = 0
    /\ page_ev = [op |-> "search"]

\* Page::skip(n)
Page_skip ==
    \E n \in 0..MaxSkip :
        /\ ~panicked
        /\ page + n <= MaxPage
        /\ page' = page + n
        /\ task' = task_after_skip(task)
        /\ results' = results_after_skip(results)
        /\ page_ev' = [op |-> "skip", n |-> n, from |-> page, had_task |-> is_some(task)]
        /\ UNCHANGED <<query, page_fetches>>
        /\ UNCHANGED <<overflow_checks, panicked, articleVars>>

\* Page::poll_next: one poll of the stream.  With no task it builds the URI
\* and starts the fetch, then polls the task; a ready task is cleared and
\* its result mapped by on_ready.  The queries of Explorer::search are
\* percent-encoded, so Page::uri does not fail on them.
Page_poll_next ==
    /\ ~panicked
    /\ page < MaxPage
    /\ is_none(task) => page_fetches < MaxFetches
    /\ LET started == is_none(task)
           t == IF started THEN Some(get_html(uri(page, query))) ELSE task
       IN  \E out \in PollOutcomes(t.val.dest) :
             IF out = Pending
             THEN /\ task' = t
                  /\ page_ev' = [op |-> "poll_next", started |-> started,
                                 dest |-> t.val.dest, from |-> page, ret |-> Pending]
                  /\ page_fetches' = page_fetches + (IF started THEN 1 ELSE 0)
                  /\ UNCHANGED <<page, results>>
             ELSE LET r == on_ready(page, results, out.val)
                  IN  /\ task' = task_after_ready(t)
                      /\ page' = r.page
                      /\ results' = r.results
                      /\ page_ev' = [op |-> "poll_next", started |-> started,
                                     dest |-> t.val.dest, from |-> page,
                                     res |-> out.val, ret |-> Ready(r.item),
                                     refreshed |-> is_some(results)
                                                     /\ r.results # results]
                      /\ page_fetches' = page_fetches + (IF started THEN 1 ELSE 0)
    /\ UNCHANGED query
    /\ UNCHANGED <<overflow_checks, panicked, articleVars>>

\* a call of the getter Page::len
Page_len_call ==
    /\ ~panicked
    /\ LET r == Page_len(results, overflow_checks)
       IN  /\ panicked' = r.panic
           /\ page_ev' = IF r.panic THEN [op |-> "len", panic |-> TRUE]
                         ELSE [op |-> "len", panic |-> FALSE, ret |-> r.val]
    /\ UNCHANGED <<page, results, query, task, page_fetches>>
    /\ UNCHANGED <<overflow_checks, articleVars>>

\* a call of the getters Page::results and Page::page
Page_getters_call ==
    /\ ~panicked
    /\ page_ev' = [op |-> "getters", results |-> Page_results(results), page |-> page]
    /\ UNCHANGED <<page, results, query, task, page_fetches>>
    /\ UNCHANGED <<overflow_checks, panicked, articleVars>>

----------------------------------------------------------------------------
(* Article: article.rs                                                     *)
(* The image links are modelled by their position in the gallery: link j   *)
(* is the viewer page of image j (0-based).  Links the site serves parse   *)
(* as URIs.                                                                *)

\* the path of the article
ArticlePath == "/g/1/a/"

min(a, b) == IF a < b THEN a ELSE b
max(a, b) == IF a < b THEN b ELSE a

\* the links the site serves on content page i of a gallery of n images:
\* min(IMAGES_PER_PAGE, n - IMAGES_PER_PAGE * i) of them, none past the end
page_links(n, i) ==
    [k \in 1..max(0, min(IMAGES_PER_PAGE, n - IMAGES_PER_PAGE * i)) |->
        IMAGES_PER_PAGE * i + k - 1]

\* the links of content pages 0..i-1, in page order
RECURSIVE pages_upto(_, _)
pages_upto(n, i) == IF i = 0 THEN <<>> ELSE pages_upto(n, i - 1) \o page_links(n, i - 1)

\* the comment lists a comment page can hold
comment_list(v, k) == [j \in 1..k |-> <<v, j>>]
CommentLists(v) == {comment_list(v, k) : k \in 0..MaxComments}

\* what client.get_html followed by parser::image_list gives for page i:
\* a transport error, a parse error, or the page's links
ImageListOutcomes(n, i) == {Err("transport"), Err("parse"), Ok(page_links(n, i))}

\* what client.get_html followed by parser::comments gives
CommentsOutcomes == {Err("transport"), Err("parse")} \cup {Ok(l) : l \in CommentLists("all")}

\* what client.get_html followed by parser::image gives for the viewer page
ViewerOutcomes(link) == {Err("transport"), Err("parse"), Ok(<<"image", link>>)}

\* what client.get_image gives
ImageOutcomes(path) == {Err("transport"), Ok(<<"bytes", path>>)}

\* Article::new, after the fetch and the three parses succeeded
InitArticleFields ==
    /\ \E n \in 0..MaxLength :
          /\ meta = [path |-> ArticlePath, length |-> n]
          /\ links = page_links(n, 0)
    /\ comments \in CommentLists("first")
    /\ call = None
    /\ calls = 0
    /\ fetches = 0
    /\ ret = [fn |-> "new", val |-> Ok(Unit)]

\* a load_image_list without the early return
never_loaded(ls, m) == FALSE

\* load_image_list, line 144: nothing to do when every link is there
already_loaded(ls, m) == Len(ls) = m.length

\* load_image_list, line 149: 1 + (meta.length - 1) / IMAGES_PER_PAGE
\* gives [panic |-> TRUE] or [panic |-> FALSE, val |-> usize]
page_len(m, checks) ==
    IF sub_overflows(m.length, 1) /\ checks THEN [panic |-> TRUE]
    ELSE [panic |-> FALSE,
          val |-> (1 + wrapping_sub(m.length, 1) \div IMAGES_PER_PAGE) % USIZE_MODULUS]

\* a loop that starts from page 0
first_page_zero(ls, m) == 0

\* load_image_list, line 152: the first page the loop fetches
first_page(ls, m) == 1

\* a load_image_list that assigns the page's links instead of appending them
extend_overwrites(ls, list) == list

\* load_image_list, line 157: self.links.extend(list)
extend(ls, list) == ls \o list

\* the links after a fetch or a parse of the loop failed (the ? operator
\* returns; nothing is undone)
links_after_failure(ls) == ls

\* the index check of load_image, line 165
out_of_range(index, ls) == index >= Len(ls)

\* the indices load_image is called with
Indices(ls) == {i \in {0, Len(ls) - 1, Len(ls), Len(ls) + 1} : i >= 0}

\* a call returned val
returned(fn, val) == [fn |-> fn, val |-> val]

\* the loop of load_image_list at the top of iteration i: fetch page i, or
\* return Ok when the range is exhausted
loop_head(i, pl, fetched) ==
    IF i < pl
    THEN /\ call' = Some([fn |-> "load_image_list", i |-> i, page_len |-> pl])
         /\ fetches' = fetched + 1
         /\ UNCHANGED ret
    ELSE /\ call' = None
         /\ fetches' = fetched
         /\ ret' = returned("load_image_list", Ok(Unit))

\* Article::load_image_list, from the call to its first suspension or return
Article_load_image_list ==
    /\ ~panicked
    /\ is_none(call)
    /\ calls < MaxCalls
    /\ calls' = calls + 1
    /\ IF already_loaded(links, meta)
       THEN /\ ret' = returned("load_image_list", Ok(Unit))
            /\ fetches' = 0
            /\ UNCHANGED <<call, panicked>>
       ELSE LET pl == page_len(meta, overflow_checks)
            IN  IF pl.panic
                THEN /\ panicked' = TRUE
                     /\ ret' = returned("load_image_list", [tag |-> "Panic"])
                     /\ fetches' = 0
                     /\ UNCHANGED call
                ELSE /\ loop_head(first_page(links, meta), pl.val, 0)
                     /\ UNCHANGED panicked
    /\ UNCHANGED <<meta, links, comments>>
    /\ UNCHANGED <<overflow_checks, pageVars>>

\* Article::load_image_list, resumed when the fetch of page call.i is done:
\* the rest of iteration i, up to the next suspension or the return
Article_load_image_list_resume ==
    /\ ~panicked
    /\ is_some(call)
    /\ call.val.fn = "load_image_list"
    /\ \E out \in ImageListOutcomes(meta.length, call.val.i) :
          IF is_err(out)
          THEN /\ links' = links_after_failure(links)
               /\ call' = None
               /\ ret' = [fn |-> "load_image_list", val |-> out, at |-> call.val.i]
               /\ UNCHANGED fetches
          ELSE /\ links' = extend(links, out.val)
               /\ loop_head(call.val.i + 1, call.val.page_len, fetches)
    /\ UNCHANGED <<meta, comments, calls>>
    /\ UNCHANGED <<overflow_checks, panicked, pageVars>>

\* the caller drops the future of a suspended call (cancellation)
Article_drop_call ==
    /\ ~panicked
    /\ is_some(call)
    /\ call' = None
    /\ ret' = [fn |-> call.val.fn, val |-> [tag |-> "Dropped"], at |-> call.val]
    /\ UNCHANGED <<meta, links, comments, calls, fetches>>
    /\ UNCHANGED <<overflow_checks, panicked, pageVars>>

\* Article::load_image(index), from the call to its first suspension, or
\* to the panic
Article_load_image ==
    /\ ~panicked
    /\ is_none(call)
    /\ \E index \in Indices(links) :
          IF out_of_range(index, links)
          THEN /\ panicked' = TRUE
               /\ ret' = [fn |-> "load_image", val |-> [tag |-> "Panic"], index |-> index]
               /\ fetches' = 0
               /\ UNCHANGED call
          ELSE /\ call' = Some([fn |-> "load_image", index |-> index, stage |-> "viewer"])
               /\ fetches' = 1
               /\ UNCHANGED <<ret, panicked>>
    /\ UNCHANGED <<meta, links, comments, calls>>
    /\ UNCHANGED <<overflow_checks, pageVars>>

\* Article::load_image, resumed when the viewer page or the image arrived
Article_load_image_resume ==
    /\ ~panicked
    /\ is_some(call)
    /\ call.val.fn = "load_image"
    /\ LET index == call.val.index
           done(val) == /\ call' = None
                        /\ ret' = [fn |-> "load_image", val |-> val, index |-> index]
                        /\ UNCHANGED fetches
       IN  IF call.val.stage = "viewer"
           THEN \E out \in ViewerOutcomes(links[index + 1]) :
                   IF is_err(out)
                   THEN done(out)
                   ELSE /\ call' = Some([fn |-> "load_image", index |-> index,
                                         stage |-> "image", path |-> out.val])
                        /\ fetches' = fetches + 1
                        /\ UNCHANGED ret
           ELSE \E out \in ImageOutcomes(call.val.path) : done(out)
    /\ UNCHANGED <<meta, links, comments, calls>>
    /\ UNCHANGED <<overflow_checks, panicked, pageVars>>

\* Article::load_all_comments, from the call to its suspension
Article_load_all_comments ==
    /\ ~panicked
    /\ is_none(call)
    /\ call' = Some([fn |-> "load_all_comments"])
    /\ fetches' = 1
    /\ UNCHANGED <<meta, links, comments, calls, ret>>
    /\ UNCHANGED <<overflow_checks, panicked, pageVars>>

\* a load_all_comments that adds the fetched comments to the ones held
append_comments(cs, list) == cs \o list

\* load_all_comments, line 180: self.comments = parser::comments(&doc)?
replace_comments(cs, list) == list

\* Article::load_all_comments, resumed when the page arrived
Article_load_all_comments_resume ==
    /\ ~panicked
    /\ is_some(call)
    /\ call.val.fn = "load_all_comments"
    /\ \E out \in CommentsOutcomes :
          /\ comments' = IF is_ok(out) THEN replace_comments(comments, out.val)
                          ELSE comments
          /\ ret' = [fn |-> "load_all_comments",
                     val |-> IF is_ok(out) THEN Ok(Unit) ELSE out,
                     out |-> out]
    /\ call' = None
    /\ UNCHANGED <<meta, links, calls, fetches>>
    /\ UNCHANGED <<overflow_checks, panicked, pageVars>>

\* what get_html followed by parser::article and parser::image_list gives
\* for the gallery page: a transport error, a parse error, or an article
\* of n images
ArticleOutcomes == {Err("transport"), Err("parse")} \cup {Ok(n) : n \in 0..MaxLength}

\* article_from_path, line 191: (article.length - 1) / IMAGES_PER_PAGE + 1
\* gives [panic |-> TRUE] or [panic |-> FALSE, val |-> usize]
from_path_page_len(length, checks) ==
    IF sub_overflows(length, 1) /\ checks THEN [panic |-> TRUE]
    ELSE [panic |-> FALSE,
          val |-> (wrapping_sub(length, 1) \div IMAGES_PER_PAGE + 1) % USIZE_MODULUS]

\* the loop of article_from_path at the top of iteration i: fetch page i,
\* or return the article when the range is exhausted
from_path_loop_head(i, pl) ==
    IF i < pl
    THEN /\ call' = Some([fn |-> "article_from_path", i |-> i, page_len |-> pl])
         /\ fetches' = fetches + 1
         /\ UNCHANGED ret
    ELSE /\ call' = None
         /\ UNCHANGED fetches
         /\ ret' = returned("article_from_path", Ok(Unit))

\* Explorer::article_from_path, from the first poll of its future to the
\* suspension on the fetch of the gallery page
Explorer_article_from_path ==
    /\ ~panicked
    /\ is_none(call)
    /\ ret = None
    /\ call' = Some([fn |-> "article_from_path", i |-> 0, page_len |-> 0])
    /\ fetches' = 1
    /\ UNCHANGED <<meta, links, comments, calls, ret>>
    /\ UNCHANGED <<overflow_checks, panicked, pageVars>>

\* Explorer::article_from_path, resumed when the gallery page arrived:
\* lines 184-194, up to the first fetch of the loop, the return or the panic
Explorer_article_from_path_resume ==
    /\ ~panicked
    /\ is_some(call)
    /\ call.val.fn = "article_from_path"
    /\ call.val.i = 0
    /\ \E out \in ArticleOutcomes :
          IF is_err(out)
          THEN /\ call' = None
               /\ ret' = [fn |-> "article_from_path", val |-> out, at |-> 0]
               /\ UNCHANGED <<meta, links, fetches, panicked>>
          ELSE /\ meta' = [path |-> ArticlePath, length |-> out.val]
               /\ links' = extend(<<>>, page_links(out.val, 0))
               /\ LET pl == from_path_page_len(out.val, overflow_checks)
                  IN  IF pl.panic
                      THEN /\ panicked' = TRUE
                           /\ call' = None
                           /\ ret' = returned("article_from_path", [tag |-> "Panic"])
                           /\ UNCHANGED fetches
                      ELSE /\ from_path_loop_head(1, pl.val)
                           /\ UNCHANGED panicked
    /\ UNCHANGED <<comments, calls>>
    /\ UNCHANGED <<overflow_checks, pageVars>>

\* Explorer::article_from_path, resumed when the fetch of page call.i of
\* the loop is done: lines 195-201 and the next turn of the loop
Explorer_article_from_path_next ==
    /\ ~panicked
    /\ is_some(call)
    /\ call.val.fn = "article_from_path"
    /\ call.val.i >= 1
    /\ fetches < MaxFetches
    /\ \E out \in ImageListOutcomes(meta.length, call.val.i) :
          IF is_err(out)
          THEN /\ links' = links_after_failure(links)
               /\ call' = None
               /\ ret' = [fn |-> "article_from_path", val |-> out, at |-> call.val.i]
               /\ UNCHANGED fetches
          ELSE /\ links' = extend(links, out.val)
               /\ from_path_loop_head(call.val.i + 1, call.val.page_len)
    /\ UNCHANGED <<meta, comments, calls>>
    /\ UNCHANGED <<overflow_checks, panicked, pageVars>>

NoArticle ==
    /\ meta = None
    /\ links = <<>>
    /\ comments = <<>>
    /\ call = None
    /\ calls = 0
    /\ fetches = 0
    /\ ret = None

----------------------------------------------------------------------------
(* Specifications                                                          *)

InitPage ==
    /\ overflow_checks \in BOOLEAN
    /\ panicked = FALSE
    /\ InitPageFields
    /\ NoArticle

NextPage ==
    \/ Page_skip
    \/ Page_poll_next
    \/ Page_len_call
    \/ Page_getters_call

SpecPage == InitPage /\ [][NextPage]_vars

NoPage ==
    /\ page = 0
    /\ results = None
    /\ query = ""
    /\ task = None
    /\ page_fetches = 0
    /\ page_ev = [op |-> "none"]

InitArticle ==
    /\ overflow_checks \in BOOLEAN
    /\ panicked = FALSE
    /\ NoPage
    /\ InitArticleFields

NextArticle ==
    \/ Article_load_image_list
    \/ Article_load_image_list_resume
    \/ Article_drop_call
    \/ Article_load_image
    \/ Article_load_image_resume
    \/ Article_load_all_comments
    \/ Article_load_all_comments_resume

SpecArticle == InitArticle /\ [][NextArticle]_vars

\* Explorer::search followed by the operations on the Page it returned
InitSearch ==
    /\ overflow_checks \in BOOLEAN
    /\ panicked = FALSE
    /\ NoPage
    /\ NoArticle

NextSearch ==
    \/ Explorer_search
    \/ (page_ev.op # "none" /\ NextPage)

SpecSearch == InitSearch /\ [][NextSearch]_vars

\* Explorer::article_from_path
InitFromPath ==
    /\ overflow_checks \in BOOLEAN
    /\ panicked = FALSE
    /\ NoPage
    /\ NoArticle

NextFromPath ==
    \/ Explorer_article_from_path
    \/ Explorer_article_from_path_resume
    \/ Explorer_article_from_path_next

SpecFromPath == InitFromPath /\ [][NextFromPath]_vars

\* percent_encode on its own
InitEncode ==
    /\ overflow_checks = FALSE
    /\ panicked = FALSE
    /\ page = 0
    /\ results = None
    /\ query = ""
    /\ task = None
    /\ page_fetches = 0
    /\ \E from \in Keywords : page_ev = [op |-> "keyword", from |-> from]
    /\ NoArticle

NextEncode == Call_percent_encode

SpecEncode == InitEncode /\ [][NextEncode]_vars

----------------------------------------------------------------------------
(* Properties                                                              *)

\* the last operation on the Page was a poll_next that completed
PollCompleted == page_ev.op = "poll_next" /\ page_ev.ret.tag = "Ready"
\* the item the completed poll_next handed to the caller
Item == page_ev.ret.val
\* the completed poll_next yielded Some(Err(..))
YieldedErr == PollCompleted /\ is_some(Item) /\ is_err(Item.val)
\* the completed poll_next yielded Some(Ok(..))
YieldedOk == PollCompleted /\ is_some(Item) /\ is_ok(Item.val)

\* every link of a gallery of n images, in order
all_links(n) == [j \in 1..n |-> j - 1]

\* the last completed Article call was load_image_list and it returned r
ListReturned == is_none(call) /\ ret.fn = "load_image_list"

\* C1: after every poll_next that yields Some(Err(..)), whatever failed, the
\* page counter is what it was before the call and no fetch is pending, so
\* the next poll_next requests the same page again.
C1_FailureKeepsPage ==
    YieldedErr => (page = page_ev.from /\ is_none(task))

\* C2: whenever a load_image_list call returns Ok, also after earlier calls
\* failed part-way, the links are those of pages 0, 1, ..., last exactly once
\* each, in page order.
C2_RetryCompletesExactly ==
    (ListReturned /\ ret.val = Ok(Unit)) => links = all_links(meta.length)

\* C3: in every reachable state of an Article, links.len() <= meta.length.
C3_LinksWithinLength ==
    Len(links) <= meta.length

\* C4: load_image(index) with index >= links.len() returns an error value,
\* performs no fetch and does not panic.
C4_OutOfRangeIsError ==
    (ret.fn = "load_image" /\ ret.index >= Len(links) /\ is_none(call))
        => (is_err(ret.val) /\ fetches = 0 /\ ~panicked)

\* ceil(n / ARTICLES_PER_PAGE), and 0 for n = 0
ceil_pages(n) == (n + ARTICLES_PER_PAGE - 1) \div ARTICLES_PER_PAGE

\* C5: Page::len never panics; it returns None while no result count is
\* known and otherwise Some(ceil(results / 25)), which is Some(0) for a
\* result count of 0.
C5_LenIsCeil ==
    page_ev.op = "len" =>
        /\ ~page_ev.panic
        /\ page_ev.ret = IF is_none(results) THEN None
                         ELSE Some(ceil_pages(results.val))

\* C6 as stated: no completed poll_next yields None.
C6_NeverNone ==
    PollCompleted => ~is_none(Item)

\* C6 as amended: a completed poll_next yields None exactly when the page
\* was fetched, its result count was extracted and parser::article_list
\* reported no list (Ok(None)); a fetched page whose list is present but
\* empty yields Some(Ok(empty list)); in every case no fetch is pending
\* afterwards, so the stream can be polled again.
C6_NoneOnlyWithoutList ==
    PollCompleted =>
        LET res == page_ev.res
            parsed == is_ok(res) /\ is_ok(res.val.search_results)
        IN  /\ is_none(Item) <=> (parsed /\ res.val.article_list = Ok(None))
            /\ (parsed /\ res.val.article_list = Ok(Some(<<>>)))
                    => Item = Some(Ok(<<>>))
            /\ is_none(task)

\* C6 witness: a poll_next fetched a page for which parser::article_list
\* reported no list, and yielded None with no fetch left pending
C6_Witness ==
    /\ PollCompleted
    /\ is_ok(page_ev.res)
    /\ page_ev.res.val.article_list = Ok(None)
    /\ is_none(Item)
    /\ is_none(task)

\* C7: skip(n) issues no fetch and clears the pending fetch; the poll_next
\* that follows a skip(n) made at page `from` starts a fetch, and that fetch
\* is for page from + n, also when a fetch for page `from` was pending.
C7_SkipThenFetch ==
    [][ /\ page_ev'.op = "skip"
              => /\ page_fetches' = page_fetches
                 /\ is_none(task')
                 /\ page' = page + page_ev'.n
        /\ (page_ev.op = "skip" /\ page_ev'.op = "poll_next")
              => /\ page_ev'.started
                 /\ page_fetches' = page_fetches + 1
                 /\ page_ev'.dest.page = page_ev.from + page_ev.n ]_vars

\* C7 witness: a skip(n), n > 0, was made while a fetch was pending
C7_Witness ==
    /\ page_ev.op = "skip"
    /\ page_ev.had_task
    /\ page_ev.n > 0
    /\ page = page_ev.from + page_ev.n
    /\ is_none(task)
    /\ page_fetches > 0

\* C8: a load_image_list call made when links.len() = meta.length returns
\* Ok at once with no fetch and no change of the links; and after a first
\* call that returned Ok, links.len() = meta.length.
C8_SecondCallIsNoOp ==
    /\ [](( calls = 1 /\ ListReturned /\ ret.val = Ok(Unit) )
            => Len(links) = meta.length)
    /\ [][ (calls' = calls + 1 /\ Len(links) = meta.length)
              => /\ ret' = returned("load_image_list", Ok(Unit))
                 /\ fetches' = 0
                 /\ is_none(call')
                 /\ links' = links ]_vars

\* C8 witness: the second call on an article of more than one content page
\* returned Ok without a fetch
C8_Witness ==
    /\ calls = 2
    /\ ListReturned
    /\ ret.val = Ok(Unit)
    /\ fetches = 0
    /\ meta.length > IMAGES_PER_PAGE
    /\ links = all_links(meta.length)

\* C9: when the first load_image_list call on a fresh Article fails at
\* content page N >= 1, it returns the error and the links are those of
\* pages 0..N-1 in page order, nothing more and nothing less.
C9_FailureKeepsPrefix ==
    (calls = 1 /\ ListReturned /\ is_err(ret.val)) =>
        /\ ret.at >= 1
        /\ links = pages_upto(meta.length, ret.at)

\* C9 witness: the first call failed at page 2 after appending page 1
C9_Witness ==
    /\ calls = 1
    /\ ListReturned
    /\ is_err(ret.val)
    /\ ret.at = 2
    /\ Len(links) = 2 * IMAGES_PER_PAGE

\* C10: the result count becomes Some only in a poll_next that yields
\* Some(Ok(..)); until then it is None.
C10_CountOnlyWithOk ==
    [][ (is_none(results) /\ is_some(results')) =>
            (page_ev'.op = "poll_next" /\ page_ev'.ret.tag = "Ready"
             /\ is_some(page_ev'.ret.val) /\ is_ok(page_ev'.ret.val.val)) ]_vars

\* C11: a Page has at most one fetch outstanding: poll_next starts a fetch
\* exactly when no task is pending (a poll that finds a pending task issues
\* no fetch and keeps that task while it is not ready), and a poll_next that
\* completes, with a success or a failure, leaves no task, so that the
\* poll_next that follows it starts a new fetch.
C11_SingleFlight ==
    [][ /\ page_fetches' # page_fetches => is_none(task)
        /\ page_ev'.op = "poll_next"
              => /\ page_ev'.started = is_none(task)
                 /\ page_fetches' = page_fetches + (IF is_none(task) THEN 1 ELSE 0)
                 /\ page_ev'.ret.tag = "Ready" => is_none(task')
                 /\ page_ev'.ret.tag = "Pending"
                       => /\ is_some(task')
                          /\ is_some(task) => task' = task
        /\ (PollCompleted /\ page_ev'.op = "poll_next")
              => /\ page_ev'.started
                 /\ page_fetches' = page_fetches + 1 ]_vars

\* C11 witness: a poll_next found the fetch of an earlier poll pending,
\* issued none itself and completed it, leaving no task
C11_Witness ==
    /\ PollCompleted
    /\ ~page_ev.started
    /\ page_fetches = 1
    /\ is_none(task)

\* C12: constructing the Page (Page::new through Explorer::search) performs
\* no fetch: the new Page has no task, is at page 0 and knows no result
\* count; and a fetch is only ever issued by a poll_next.
C12_LazyConstruction ==
    /\ [](page_ev.op = "search"
            => /\ is_none(task)
               /\ page = 0
               /\ is_none(results)
               /\ page_fetches = 0
               /\ query = F_SEARCH \o percent_encode(page_ev.keyword))
    /\ [][ page_fetches' # page_fetches
              => (page_ev'.op = "poll_next" /\ page_ev'.started) ]_vars

\* C12 witness: the first poll_next on a Page made by Explorer::search has
\* issued the first fetch, for page 0
C12_Witness ==
    /\ page_ev.op = "poll_next"
    /\ page_ev.started
    /\ page_fetches = 1
    /\ page_ev.dest = uri(0, query)
    /\ query \in {F_SEARCH \o percent_encode(k) : k \in SearchKeywords}

\* the unreserved bytes: ASCII letters, digits, '-', '_', '.', '~'
UnreservedBytes ==
    (65..90) \cup (97..122) \cup (48..57) \cup {45, 95, 46, 126}

\* '0'..'9', 'A'..'F'
UpperHexDigits == <<48, 49, 50, 51, 52, 53, 54, 55, 56, 57, 65, 66, 67, 68, 69, 70>>

\* what one input byte is to become: itself, or '%' and two upper-case digits
escaped(b) ==
    IF b \in UnreservedBytes THEN <<b>>
    ELSE <<37, UpperHexDigits[(b \div 16) + 1], UpperHexDigits[(b % 16) + 1]>>

RECURSIVE escaped_all(_)
escaped_all(from) ==
    IF from = <<>> THEN <<>> ELSE escaped(Head(from)) \o escaped_all(Tail(from))

\* C15: percent_encode maps each unreserved byte to itself and every other
\* byte to '%' followed by its two upper-case hexadecimal digits, byte by
\* byte and in order; space gives %20, '/' gives %2F, C3 A9 gives %C3%A9.
C15_EncodesByteByByte ==
    page_ev.op = "percent_encode"
        => /\ page_ev.ret = escaped_all(page_ev.from)
           /\ page_ev.from = <<32>> => page_ev.ret = <<37, 50, 48>>
           /\ page_ev.from = <<47>> => page_ev.ret = <<37, 50, 70>>
           /\ page_ev.from = <<195, 169>>
                 => page_ev.ret = <<37, 67, 51, 37, 65, 57>>
           /\ page_ev.from = <<126>> => page_ev.ret = <<126>>

\* C15 witness: a two-byte keyword outside the unreserved set has been
\* encoded to six characters
C15_Witness ==
    /\ page_ev.op = "percent_encode"
    /\ page_ev.from = <<195, 169>>
    /\ Len(page_ev.ret) = 6

\* C13: load_all_comments performs one fetch; on success comments becomes
\* exactly the fetched list, on failure the error is returned and comments
\* stays as it was; meta and links are never touched.
C13_CommentsReplaced ==
    [][ /\ (is_none(call) /\ is_some(call') /\ call'.val.fn = "load_all_comments")
            => /\ fetches' = 1
               /\ meta' = meta /\ links' = links /\ comments' = comments
        /\ (/\ is_some(call)
            /\ call.val.fn = "load_all_comments"
            /\ is_none(call')
            /\ ret'.val.tag # "Dropped")
            => /\ fetches' = 1
               /\ fetches = 1
               /\ meta' = meta
               /\ links' = links
               /\ is_ok(ret'.out)
                     => (comments' = ret'.out.val /\ ret'.val = Ok(Unit))
               /\ is_err(ret'.out)
                     => (comments' = comments /\ ret'.val = ret'.out) ]_vars

\* C13 witness: a load_all_comments returned Ok and the Article holds the
\* one-comment list that was fetched
C13_Witness ==
    /\ ret.fn = "load_all_comments"
    /\ ret.val = Ok(Unit)
    /\ is_none(call)
    /\ comments = comment_list("all", 1)
    /\ fetches = 1

\* C14: for an article of length 0, article_from_path fetches no page
\* beyond the gallery page, returns the article and never subtracts 1
\* from 0 (no panic, no wrapped page count).
C14_ZeroLengthNeedsNoPage ==
    (meta # None /\ meta.length = 0)
        => /\ ~panicked
           /\ is_none(call)
           /\ fetches = 1
           /\ ret = returned("article_from_path", Ok(Unit))

\* ceil(n / IMAGES_PER_PAGE)
ceil_image_pages(n) == (n + IMAGES_PER_PAGE - 1) \div IMAGES_PER_PAGE

\* C16: in the first load_image_list of an Article of length >= 1, with no
\* failure, the fetch outstanding is the one for page i = 1, 2, ... in this
\* order, issued when exactly the links of pages 0..i-1 are held; the call
\* returns Ok after ceil(length / 40) - 1 fetches (1 fetch for length 41).
C16_SequentialFetches ==
    /\ (calls = 1 /\ is_some(call) /\ call.val.fn = "load_image_list")
          => /\ call.val.i >= 1
             /\ call.val.i = fetches
             /\ call.val.i < ceil_image_pages(meta.length)
             /\ links = pages_upto(meta.length, call.val.i)
    /\ (calls = 1 /\ ListReturned /\ ret.val = Ok(Unit) /\ meta.length >= 1)
          => /\ fetches = ceil_image_pages(meta.length) - 1
             /\ links = all_links(meta.length)
             /\ meta.length = 41 => fetches = 1

\* C16 witness: the first load_image_list of an Article of 41 images
\* returned Ok after one fetch
C16_Witness ==
    /\ calls = 1
    /\ ListReturned
    /\ ret.val = Ok(Unit)
    /\ meta.length = 41
    /\ fetches = 1
    /\ Len(links) = 41

\* the batch the completed poll_next yielded as Some(Ok(batch))
YieldedBatch == Item.val.val

\* C17: batches are yielded in increasing page order.  The page counter
\* never decreases; a poll_next that yields Some(Ok(batch)) yields the batch
\* of the page the counter stood at and leaves the counter exactly 1 higher,
\* so every later batch belongs to a strictly greater page.
C17_IncreasingPageOrder ==
    /\ [](YieldedOk
            => /\ page = page_ev.from + 1
               /\ page_ev.dest = uri(page_ev.from, query)
               /\ \A j \in 1..Len(YieldedBatch) : YieldedBatch[j][1] = page_ev.from)
    /\ [][ /\ page' >= page
           /\ page_ev'.op = "poll_next" => page_ev'.from = page ]_vars

\* C17 witness: the third or a later fetch of the Page yielded the batch
\* of a page after the first
C17_Witness ==
    /\ YieldedOk
    /\ page_ev.from >= 1
    /\ page_fetches >= 3
    /\ Len(YieldedBatch) = 1
    /\ YieldedBatch[1][1] = page - 1

\* C18: after every poll_next that yields Some(Ok(..)), results() is the
\* count parser::search_results extracted from the page just fetched,
\* whatever count was known before.
C18_LastWriterWins ==
    YieldedOk => results = Some(page_ev.res.val.search_results.val)

\* C18 witness: a poll_next yielded Some(Ok(..)) and replaced a count known
\* from an earlier page by a different one
C18_Witness ==
    /\ YieldedOk
    /\ page_ev.refreshed
    /\ results = Some(page_ev.res.val.search_results.val)
    /\ page_ev.from >= 1

\* C20: skip(n) adds n to the page counter and clears the pending fetch,
\* and changes nothing else: the query and the result count are what they
\* were, also when a fetch was in flight.
C20_SkipFrame ==
    [][ page_ev'.op = "skip"
          => /\ page' = page + page_ev'.n
             /\ is_none(task')
             /\ page_ev'.had_task = is_some(task)
             /\ query' = query
             /\ results' = results
             /\ page_fetches' = page_fetches ]_vars

\* C20 witness: a skip of two pages on a Page that knew a result count and
\* had a fetch in flight
C20_Witness ==
    /\ page_ev.op = "skip"
    /\ page_ev.n = 2
    /\ page_ev.had_task
    /\ is_some(results)
    /\ is_none(task)
    /\ page = page_ev.from + 2

\* the last Article call was a load_image_list whose future was dropped
ListDropped ==
    is_none(call) /\ ret.fn = "load_image_list" /\ ret.val.tag = "Dropped"

\* C19: a load_image_list dropped while the fetch of page i was outstanding
\* leaves links made of whole pages, in page order; and the next
\* load_image_list goes on from there: its first fetch is for page i, not
\* for a page whose links are already held.
C19_DroppedProgressReused ==
    /\ [](ListDropped
            => \E j \in 1..ceil_image_pages(meta.length) :
                  links = pages_upto(meta.length, j))
    /\ [][ (ListDropped /\ calls = 1 /\ calls' = calls + 1 /\ is_some(call'))
              => call'.val.i = ret.at.i ]_vars

====
